---- MODULE Spec2Model ----
(***************************************************************************)
(* Model of the unified error plugin (src/src/core/index.ts), the          *)
(* ProblemError model and HttpError catalog (src/src/core/errors.ts).      *)
(*                                                                         *)
(* JavaScript values are tagged records [t |-> tag, v |-> payload].        *)
(* A string is a sequence of atoms: an atom is a chunk of text that the    *)
(* code never splits (one character or one opaque run of characters), so   *)
(* concatenation is \o and String.prototype.includes is a search for a     *)
(* contiguous sub-sequence.                                                *)
(***************************************************************************)
EXTENDS Integers, Sequences, FiniteSets, TLC

(***************************************************************************)
(* JavaScript values                                                       *)
(***************************************************************************)
Undef == [t |-> "undefined", v |-> 0]
Null == [t |-> "null", v |-> 0]
Str(s) == [t |-> "string", v |-> s]
Num(n) == [t |-> "number", v |-> n]
Arr(items) == [t |-> "array", v |-> items]
Bool(b) == [t |-> "boolean", v |-> b]
Obj(fields) == [t |-> "object", v |-> fields]
ErrorObj(fields) == [t |-> "Error", v |-> fields]
NoToStringObj == [t |-> "bareobject", v |-> <<>>]

EmptyMap == [k \in {} |-> Undef]

\* { ...base, ...over }: the keys of over win
Merge(base, over) ==
    [k \in (DOMAIN base) \cup (DOMAIN over) |->
        IF k \in DOMAIN over THEN over[k] ELSE base[k]]

\* completion records of a computation: a value or a thrown exception
Ok(v) == [t |-> "ok", v |-> v]
Throw(name) == [t |-> "throw", v |-> name]

IsNullish(x) == x.t \in {"undefined", "null"}
HasProps(x) ==
    x.t \in {"object", "Error", "ProblemError", "StandaloneProblemError"}

\* ToBoolean
Truthy(x) ==
    CASE x.t \in {"undefined", "null"} -> FALSE
      [] x.t = "string" -> x.v # <<>>
      [] x.t = "number" -> x.v # 0
      [] x.t = "boolean" -> x.v
      [] OTHER -> TRUE

Digit(d) ==
    CASE d = 0 -> "0" [] d = 1 -> "1" [] d = 2 -> "2" [] d = 3 -> "3"
      [] d = 4 -> "4" [] d = 5 -> "5" [] d = 6 -> "6" [] d = 7 -> "7"
      [] d = 8 -> "8" [] d = 9 -> "9"

\* Number::toString for the non-negative integers
RECURSIVE NumToStr(_)
NumToStr(n) ==
    IF n < 10 THEN <<Digit(n)>> ELSE NumToStr(n \div 10) \o <<Digit(n % 10)>>

\* String.prototype.includes
Includes(s, sub) ==
    \E i \in 1..(Len(s) - Len(sub) + 1) : SubSeq(s, i, i + Len(sub) - 1) = sub

\* String(x) / template-literal conversion `${x}` of a value that has one
ToStr(x) ==
    CASE x.t = "string" -> x.v
      [] x.t = "number" -> NumToStr(x.v)
      [] x.t = "undefined" -> <<"undefined">>
      [] x.t = "null" -> <<"null">>
      [] x.t = "array" -> <<"[array]">>
      [] OTHER -> <<"[object Object]">>

\* property read x.k on a non-nullish value
GetProp(x, k) ==
    IF HasProps(x) /\ k \in DOMAIN x.v THEN x.v[k] ELSE Undef

(***************************************************************************)
(* ProblemError and the HttpError catalog (src/src/core/errors.ts)         *)
(***************************************************************************)
AboutBlank == <<"about:blank">>

\* the constructor as it would be with no default value for type
NewProblemError_NoDefault(type, title, status, detail, instance, extensions) ==
    [t |-> "ProblemError",
     v |-> [message |-> IF Truthy(detail) THEN detail ELSE title,
            status |-> status,
            title |-> title,
            type |-> type,
            detail |-> detail,
            instance |-> instance,
            extensions |-> IF extensions.t = "undefined"
                           THEN Obj(EmptyMap) ELSE extensions]]

\* new ProblemError(type = "about:blank", title, status, detail?, instance?,
\*                  extensions = {})
NewProblemError(type, title, status, detail, instance, extensions) ==
    [t |-> "ProblemError",
     v |-> [message |-> IF Truthy(detail) THEN detail ELSE title,
            status |-> status,
            title |-> title,
            type |-> IF type.t = "undefined" THEN Str(AboutBlank) ELSE type,
            detail |-> detail,
            instance |-> instance,
            extensions |-> IF extensions.t = "undefined"
                           THEN Obj(EmptyMap) ELSE extensions]]

\* object spread ...x : own enumerable members of an object, nothing of a
\* nullish value
Spread(x) == IF x.t = "object" THEN x.v ELSE EmptyMap

\* toJSON as it would be with the extensions spread first and the reserved
\* members after them
toJSON_ReservedLast(p) ==
    Merge(Spread(p.v.extensions),
          Merge(Merge([type |-> p.v.type, title |-> p.v.title,
                       status |-> p.v.status],
                      IF Truthy(p.v.detail)
                      THEN [detail |-> p.v.detail] ELSE EmptyMap),
                IF Truthy(p.v.instance)
                THEN [instance |-> p.v.instance] ELSE EmptyMap))

\* ProblemError.prototype.toJSON
toJSON(p) ==
    Merge(Merge(Merge([type |-> p.v.type, title |-> p.v.title,
                       status |-> p.v.status],
                      IF Truthy(p.v.detail)
                      THEN [detail |-> p.v.detail] ELSE EmptyMap),
                IF Truthy(p.v.instance)
                THEN [instance |-> p.v.instance] ELSE EmptyMap),
          Spread(p.v.extensions))

CatalogNames ==
    {"BadRequest", "Unauthorized", "PaymentRequired", "Forbidden", "NotFound",
     "MethodNotAllowed", "NotAcceptable", "Conflict", "InternalServerError",
     "NotImplemented", "BadGateway", "ServiceUnavailable", "GatewayTimeout"}

\* the literal "https://httpstatuses.com/<d1><d2><d3>"
StatusesUri(d1, d2, d3) == <<"https://", "httpstatuses.com", "/", d1, d2, d3>>

\* the constants each catalog class passes to super(...)
Catalog(name) ==
    CASE name = "BadRequest" ->
           [type |-> StatusesUri("4", "0", "0"), title |-> <<"Bad Request">>,
            status |-> 400]
      [] name = "Unauthorized" ->
           [type |-> StatusesUri("4", "0", "1"), title |-> <<"Unauthorized">>,
            status |-> 401]
      [] name = "Forbidden" ->
           [type |-> StatusesUri("4", "0", "3"), title |-> <<"Forbidden">>,
            status |-> 403]
      [] name = "NotFound" ->
           [type |-> StatusesUri("4", "0", "4"), title |-> <<"Not Found">>,
            status |-> 404]
      [] name = "Conflict" ->
           [type |-> StatusesUri("4", "0", "9"), title |-> <<"Conflict">>,
            status |-> 409]
      [] name = "PaymentRequired" ->
           [type |-> StatusesUri("4", "0", "2"),
            title |-> <<"Payment Required">>, status |-> 402]
      [] name = "MethodNotAllowed" ->
           [type |-> StatusesUri("4", "0", "5"),
            title |-> <<"Method Not Allowed">>, status |-> 405]
      [] name = "NotAcceptable" ->
           [type |-> StatusesUri("4", "0", "6"),
            title |-> <<"Not Acceptable">>, status |-> 406]
      [] name = "InternalServerError" ->
           [type |-> StatusesUri("5", "0", "0"),
            title |-> <<"Internal Server Error">>, status |-> 500]
      [] name = "NotImplemented" ->
           [type |-> StatusesUri("5", "0", "1"),
            title |-> <<"Not Implemented">>, status |-> 501]
      [] name = "BadGateway" ->
           [type |-> StatusesUri("5", "0", "2"), title |-> <<"Bad Gateway">>,
            status |-> 502]
      [] name = "ServiceUnavailable" ->
           [type |-> StatusesUri("5", "0", "3"),
            title |-> <<"Service Unavailable">>, status |-> 503]
      [] name = "GatewayTimeout" ->
           [type |-> StatusesUri("5", "0", "4"),
            title |-> <<"Gateway Timeout">>, status |-> 504]

\* new HttpError.<name>(detail?, extensions?)
HttpError(name, detail, extensions) ==
    NewProblemError(Str(Catalog(name).type), Str(Catalog(name).title),
                    Num(Catalog(name).status), detail, Undef, extensions)

(***************************************************************************)
(* The standalone ProblemError and catalog (src/src/errors.ts), the classes *)
(* the __tests__ import.  Extension members are copied onto the instance,   *)
(* so the value is the map of the instance's own properties.                *)
(***************************************************************************)
\* new ProblemError(...) of src/src/errors.ts: Object.assign(this, extensions)
StandaloneProblemError(type, title, status, detail, instance, extensions) ==
    [t |-> "StandaloneProblemError",
     v |-> Merge([message |-> IF Truthy(detail) THEN detail ELSE title,
                  type |-> IF type.t = "undefined" THEN Str(AboutBlank)
                           ELSE type,
                  title |-> title,
                  status |-> status,
                  detail |-> detail,
                  instance |-> instance],
                 IF Truthy(extensions) THEN Spread(extensions) ELSE EmptyMap)]

\* the names toJSON() of src/src/errors.ts takes out of the rest properties
StandaloneReserved ==
    {"type", "title", "status", "detail", "instance", "name", "stack",
     "message"}

\* ProblemError.toJSON() of src/src/errors.ts
StandaloneToJSON(p) ==
    Merge(Merge(Merge([type |-> p.v.type, title |-> p.v.title,
                       status |-> p.v.status],
                      IF Truthy(p.v.detail)
                      THEN [detail |-> p.v.detail] ELSE EmptyMap),
                IF Truthy(p.v.instance)
                THEN [instance |-> p.v.instance] ELSE EmptyMap),
          [k \in DOMAIN p.v \ StandaloneReserved |-> p.v[k]])

\* new HttpError.<name>(detail, extensions) of src/src/errors.ts: only
\* BadRequest has the extensions parameter
StandaloneHttpError(name, detail, extensions) ==
    StandaloneProblemError(Str(Catalog(name).type), Str(Catalog(name).title),
                           Num(Catalog(name).status), detail, Undef,
                           IF name = "BadRequest" THEN extensions ELSE Undef)

(***************************************************************************)
(* Database errors: isDatabaseError (src/src/presets/hooks/db/guards.ts)   *)
(* and mapDatabaseError (src/src/framework/error-system/hooks/db/mapper.ts)*)
(*                                                                         *)
(* SQLSTATE codes and constraint names are strings of one-character atoms. *)
(***************************************************************************)
DigitChars == {"0", "1", "2", "3", "4", "5", "6", "7", "8", "9"}
UpperChars ==
    {"A", "B", "C", "D", "E", "F", "G", "H", "I", "J", "K", "L", "M", "N", "O",
     "P", "Q", "R", "S", "T", "U", "V", "W", "X", "Y", "Z"}
LowerChars ==
    {"a", "b", "c", "d", "e", "f", "g", "h", "i", "j", "k", "l", "m", "n", "o",
     "p", "q", "r", "s", "t", "u", "v", "w", "x", "y", "z"}
\* the class \w
WordChars == DigitChars \cup UpperChars \cup LowerChars \cup {"_"}

\* typeof x === "object" (null included)
TypeofObject(x) ==
    x.t \in {"null", "object", "Error", "ProblemError",
             "StandaloneProblemError", "bareobject", "array"}

\* the test as it would be for /^\w{5}$/
IsPostgresCode_AnyCase(s) ==
    /\ Len(s) = 5
    /\ \A i \in 1..Len(s) : s[i] \in WordChars

\* POSTGRES_ERROR_CODE_REGEX.test(s) for /^[0-9A-Z]{5}$/
IsPostgresCode(s) ==
    /\ Len(s) = 5
    /\ \A i \in 1..Len(s) : s[i] \in DigitChars \cup UpperChars

isDatabaseError(error) ==
    IF ~Truthy(error) \/ ~TypeofObject(error) THEN FALSE
    ELSE IF ~Truthy(GetProp(error, "cause"))
            \/ ~TypeofObject(GetProp(error, "cause")) THEN FALSE
    ELSE LET code == GetProp(GetProp(error, "cause"), "code")
         IN  IF ~Truthy(code) \/ code.t # "string" THEN FALSE
             ELSE IsPostgresCode(code.v)

getPostgresError(error) == GetProp(error, "cause")

\* String.prototype.toUpperCase of one character
UpperChar(c) ==
    CASE c = "a" -> "A" [] c = "b" -> "B" [] c = "c" -> "C" [] c = "d" -> "D"
      [] c = "e" -> "E" [] c = "f" -> "F" [] c = "g" -> "G" [] c = "h" -> "H"
      [] c = "i" -> "I" [] c = "j" -> "J" [] c = "k" -> "K" [] c = "l" -> "L"
      [] c = "m" -> "M" [] c = "n" -> "N" [] c = "o" -> "O" [] c = "p" -> "P"
      [] c = "q" -> "Q" [] c = "r" -> "R" [] c = "s" -> "S" [] c = "t" -> "T"
      [] c = "u" -> "U" [] c = "v" -> "V" [] c = "w" -> "W" [] c = "x" -> "X"
      [] c = "y" -> "Y" [] c = "z" -> "Z" [] OTHER -> c

\* str.split(" ").map(w => w.charAt(0).toUpperCase() + w.slice(1)).join(" "):
\* a character is upper-cased when it opens the string or follows a space
toTitleCase(str) ==
    [i \in 1..Len(str) |->
        IF i = 1 \/ str[i - 1] = " " THEN UpperChar(str[i]) ELSE str[i]]

\* field.replace(/_/g, " ")
UnderscoresToSpaces(s) == [i \in 1..Len(s) |-> IF s[i] = "_" THEN " " ELSE s[i]]

ConstraintSuffixes == {<<"_", "k", "e", "y">>, <<"_", "i", "d", "x">>,
                       <<"_", "f", "k", "e", "y">>}

\* the regular expression /_(\w+?)(?:_key|_idx|_fkey)?$/ tried at position i
\* with a group of n characters: s[i] is "_", the group is n >= 1 word
\* characters, and what follows is a suffix or nothing, up to the end
FieldMatchAt(s, i, n) ==
    /\ s[i] = "_"
    /\ n >= 1
    /\ i + n <= Len(s)
    /\ \A j \in (i + 1)..(i + n) : s[j] \in WordChars
    /\ LET rest == SubSeq(s, i + n + 1, Len(s))
       IN  rest = <<>> \/ rest \in ConstraintSuffixes

\* constraint.match(...)?.[1]: the leftmost position that matches, and there
\* the shortest group (the group is lazy); <<>> when nothing matches
FieldOf(s) ==
    LET starts == {i \in 1..Len(s) : \E n \in 1..Len(s) : FieldMatchAt(s, i, n)}
    IN  IF starts = {} THEN <<>>
        ELSE LET i == CHOOSE a \in starts : \A b \in starts : a <= b
                 n == CHOOSE a \in 1..Len(s) :
                        /\ FieldMatchAt(s, i, a)
                        /\ \A b \in 1..Len(s) : FieldMatchAt(s, i, b) => a <= b
             IN  SubSeq(s, i + 1, i + n)

\* The Chinese texts of the mapper's details, each one atom named by its
\* meaning
ConstraintViolated == "<database constraint violated>"
MustBeUnique == "<must be unique>"
MustReference == "<must reference a valid record>"
On == "<on>"
ViolatesConstraint == "<constraint violated on it>"
MissingField == "<required field missing>"
FieldIsEmpty == "<required field is empty>"
ReferenceError == "<reference error: record in use>"
DuplicateData == "<duplicate data>"
RecordExists == "<the record already exists>"
DatabaseError == "<database error>"
ValidationFailed == "<data validation failed>"
TransactionConflict == "<transaction conflict, retry>"
DatabaseBusy == "<database busy, retry later>"
OutOfResources == "<database out of resources, retry later>"
SystemError == "<database system error, contact the administrator>"
ConnectionFailed == "<database connection failed, retry later>"

KeyNeedle == <<"_", "k", "e", "y">>
FkeyNeedle == <<"_", "f", "k", "e", "y">>

\* parseConstraint(constraint)
parseConstraint(constraint) ==
    IF ~Truthy(constraint) THEN Ok(<<ConstraintViolated>>)
    ELSE IF constraint.t # "string" THEN Throw("TypeError")
    ELSE LET field == FieldOf(constraint.v)
             shown == IF field # <<>>
                      THEN toTitleCase(UnderscoresToSpaces(field))
                      ELSE constraint.v
         IN  IF Includes(constraint.v, KeyNeedle)
             THEN Ok(shown \o <<" ", MustBeUnique>>)
             ELSE IF Includes(constraint.v, FkeyNeedle)
             THEN Ok(shown \o <<" ", MustReference>>)
             ELSE Ok(<<On, " ">> \o shown \o <<" ", ViolatesConstraint>>)

NullValueInColumn == "null value in column \""
Quote == "\""

\* parseColumnFromMessage(msg): msg.match(/null value in column "(.*?)"/)?.[1]
\* || null, as a string that is empty when the result is null
parseColumnFromMessage(msg) ==
    IF msg.t # "string" THEN Throw("TypeError")
    ELSE LET s == msg.v
             hits == {i \in 1..Len(s) :
                        /\ s[i] = NullValueInColumn
                        /\ \E j \in (i + 1)..Len(s) :
                              /\ s[j] = Quote
                              /\ \A k \in (i + 1)..(j - 1) : s[k] # "\n"}
         IN  IF hits = {} THEN Ok(<<>>)
             ELSE LET i == CHOOSE a \in hits : \A b \in hits : a <= b
                      j == CHOOSE a \in (i + 1)..Len(s) :
                             /\ s[a] = Quote
                             /\ \A b \in (i + 1)..(a - 1) : s[b] # Quote
                  IN  Ok(SubSeq(s, i + 1, j - 1))

WhiteSpace == {" ", "\n", "\t"}

\* String.prototype.trim
RECURSIVE Trim(_)
Trim(s) ==
    IF s = <<>> THEN s
    ELSE IF s[1] \in WhiteSpace THEN Trim(Tail(s))
    ELSE IF s[Len(s)] \in WhiteSpace THEN Trim(SubSeq(s, 1, Len(s) - 1))
    ELSE s

\* msg.split("\n")[0]
FirstLine(s) ==
    IF \E i \in 1..Len(s) : s[i] = "\n"
    THEN SubSeq(s, 1, (CHOOSE i \in 1..Len(s) :
                          s[i] = "\n" /\ \A j \in 1..(i - 1) : s[j] # "\n") - 1)
    ELSE s

FailedQuery == "Failed query:"

\* firstLine.replace(/^Failed query:\s*/, "")
RECURSIVE DropWhiteSpace(_)
DropWhiteSpace(s) ==
    IF s # <<>> /\ s[1] \in WhiteSpace THEN DropWhiteSpace(Tail(s)) ELSE s

StripPrefix(line) ==
    IF line # <<>> /\ line[1] = FailedQuery
    THEN DropWhiteSpace(Tail(line)) ELSE line

\* stripQuery(msg)
stripQuery(msg) ==
    IF ~Truthy(msg) THEN Ok(<<>>)
    ELSE IF msg.t # "string" THEN Throw("TypeError")
    ELSE IF FirstLine(msg.v) = <<>> THEN Ok(<<>>)
    ELSE Ok(Trim(StripPrefix(FirstLine(msg.v))))

Code(c1, c2, c3, c4, c5) == Str(<<c1, c2, c3, c4, c5>>)

ResourceCodes ==
    {Code("5", "3", "0", "0", "0"), Code("5", "3", "1", "0", "0"),
     Code("5", "3", "2", "0", "0"), Code("5", "3", "3", "0", "0"),
     Code("5", "3", "4", "0", "0")}
SystemCodes == {Code("5", "8", "0", "0", "0"), Code("5", "8", "0", "3", "0")}
ConnectionCodes ==
    {Code("0", "8", "0", "0", "0"), Code("0", "8", "0", "0", "1"),
     Code("0", "8", "0", "0", "3"), Code("0", "8", "0", "0", "4"),
     Code("0", "8", "0", "0", "6"), Code("0", "8", "0", "0", "7")}

\* case "23502": column || parseColumnFromMessage(rawMsg) || the "field is
\* empty" text, after the prefix
NotNullDetail(column, rawMsg) ==
    IF Truthy(column) THEN Ok(<<MissingField, ": ">> \o ToStr(column))
    ELSE LET parsed == parseColumnFromMessage(rawMsg)
         IN  IF parsed.t = "throw" THEN parsed
             ELSE Ok(<<MissingField, ": ">>
                     \o (IF parsed.v # <<>> THEN parsed.v
                         ELSE <<FieldIsEmpty>>))

\* case "23503"
ForeignKeyDetail(constraint) ==
    LET phrase == parseConstraint(constraint)
    IN  IF phrase.t = "throw" THEN phrase
        ELSE Ok(<<ReferenceError, " (">> \o phrase.v \o <<")">>)

\* case "23505"
UniqueDetail(constraint) ==
    LET phrase == parseConstraint(constraint)
    IN  IF phrase.t = "throw" THEN phrase
        ELSE Ok(<<DuplicateData, ": ">>
                \o (IF phrase.v # <<>> THEN phrase.v ELSE <<RecordExists>>))

\* default
UnknownCodeDetail(code, rawMsg) ==
    LET stripped == stripQuery(rawMsg)
    IN  IF stripped.t = "throw" THEN stripped
        ELSE Ok(<<DatabaseError, " [">> \o ToStr(code) \o <<"]: ">>
                \o stripped.v)

\* The catalog entry and the detail one case of mapDatabaseError chooses
Mapping(name, detail) == [name |-> name, detail |-> detail]

\* mapDatabaseError(error), called on a value isDatabaseError accepts
mapDatabaseError(error) ==
    LET pgError == getPostgresError(error)
        code == GetProp(pgError, "code")
        detail == GetProp(pgError, "detail")
        constraint == GetProp(pgError, "constraint")
        rawMsg == GetProp(pgError, "message")
        column == IF IsNullish(GetProp(pgError, "column")) THEN Str(<<>>)
                  ELSE GetProp(pgError, "column")
        extensions == Obj([k \in {"x-pg-code", "x-constraint"} |->
                              IF k = "x-pg-code" THEN code ELSE constraint])
        chosen ==
            CASE code = Code("2", "3", "5", "0", "2") ->
                   Mapping("BadRequest", NotNullDetail(column, rawMsg))
              [] code = Code("2", "3", "5", "0", "3") ->
                   Mapping("BadRequest", ForeignKeyDetail(constraint))
              [] code = Code("2", "3", "5", "0", "5") ->
                   Mapping("Conflict", UniqueDetail(constraint))
              [] code = Code("2", "3", "5", "1", "4") ->
                   Mapping("BadRequest",
                           Ok(<<ValidationFailed, ": ">>
                              \o (IF Truthy(detail) THEN ToStr(detail)
                                  ELSE <<"Check constraint violation">>)))
              [] code = Code("4", "0", "0", "0", "1") ->
                   Mapping("ServiceUnavailable", Ok(<<TransactionConflict>>))
              [] code = Code("4", "0", "P", "0", "1") ->
                   Mapping("ServiceUnavailable", Ok(<<DatabaseBusy>>))
              [] code \in ResourceCodes ->
                   Mapping("ServiceUnavailable", Ok(<<OutOfResources>>))
              [] code \in SystemCodes ->
                   Mapping("ServiceUnavailable", Ok(<<SystemError>>))
              [] code \in ConnectionCodes ->
                   Mapping("ServiceUnavailable", Ok(<<ConnectionFailed>>))
              [] OTHER ->
                   Mapping("InternalServerError",
                           UnknownCodeDetail(code, rawMsg))
    IN  IF chosen.detail.t = "throw" THEN chosen.detail
        ELSE Ok(HttpError(chosen.name, Str(chosen.detail.v), extensions))

\* the transform hook of standardErrorSuite (src/unnamed/part_004)
SuiteTransform(error, ctx) ==
    IF isDatabaseError(error) THEN mapDatabaseError(error) ELSE Ok(Null)

(***************************************************************************)
(* unifiedErrorPlugin(options).onError (src/src/core/index.ts)             *)
(*                                                                         *)
(* options.transform and options.onBeforeRespond are user functions; a     *)
(* function is modelled by what a call of it does:                         *)
(*   transform        Undef | [t |-> "returns", v |-> value]               *)
(*                          | [t |-> "throws", v |-> 0]                    *)
(*                          | [t |-> "suite", v |-> 0]  (standardErrorSuite)*)
(*   onBeforeRespond  Undef | [t |-> "hook", v |-> "returns" | "throws"    *)
(*                                       | "async" | "rejects"]            *)
(*                    ("async": a promise that is fulfilled later,         *)
(*                     "rejects": a promise that is rejected later)        *)
(***************************************************************************)
InstanceOfProblemError(x) == x.t = "ProblemError"
InstanceOfError(x) ==
    x.t \in {"Error", "ProblemError", "StandaloneProblemError"}

\* options.transform(error, context)
CallTransform(f, error, ctx) ==
    CASE f.t = "returns" -> Ok(f.v)
      [] f.t = "throws" -> Throw("TransformError")
      [] f.t = "suite" -> SuiteTransform(error, ctx)

\* if (result instanceof ProblemError) problem = result; an exception of the
\* call is not caught
KeepProblemError(result) ==
    IF result.t = "throw" THEN result
    ELSE IF InstanceOfProblemError(result.v) THEN Ok(result.v)
    ELSE Ok(Undef)

\* Phase 1 as it would be if an error that is already a ProblemError skipped
\* the transform hook
Phase1_SkipsForProblemError(options, error, ctx) ==
    IF Truthy(options.transform) /\ ~InstanceOfProblemError(error)
    THEN KeepProblemError(CallTransform(options.transform, error, ctx))
    ELSE Ok(Undef)

\* Phase 1: the problem the transform hook chose, or undefined
Phase1(options, error, ctx) ==
    IF Truthy(options.transform)
    THEN KeepProblemError(CallTransform(options.transform, error, ctx))
    ELSE Ok(Undef)

\* (e) => ({ path: e.path, message: e.message, value: e.value })
ValidationEntry(e) ==
    Obj([path |-> GetProp(e, "path"), message |-> GetProp(e, "message"),
         value |-> GetProp(e, "value")])

\* error.all?.map(...)
MapAll(error) ==
    IF IsNullish(error) THEN Throw("TypeError")
    ELSE LET all == GetProp(error, "all")
         IN  IF IsNullish(all) THEN Ok(Undef)
             ELSE IF all.t # "array" THEN Throw("TypeError")
             ELSE IF \E i \in 1..Len(all.v) : IsNullish(all.v[i])
             THEN Throw("TypeError")
             ELSE Ok(Arr([i \in 1..Len(all.v) |-> ValidationEntry(all.v[i])]))

\* the default branch: error instanceof Error ? error.message : String(error)
DefaultCase(error) ==
    IF InstanceOfError(error)
    THEN Ok(HttpError("InternalServerError", GetProp(error, "message"), Undef))
    ELSE IF error.t = "bareobject" THEN Throw("TypeError")
    ELSE Ok(HttpError("InternalServerError", Str(ToStr(error)), Undef))

\* case "VALIDATION"
ValidationCase(error) ==
    LET errors == MapAll(error)
    IN  IF errors.t = "throw" THEN errors
        ELSE Ok(HttpError("BadRequest", Str(<<"Validation Failed">>),
                          Obj([errors |-> errors.v])))

\* case "NOT_FOUND" as it would be with the path left out of the detail
NotFoundCase_NoPath(path) ==
    Ok(HttpError("NotFound", Str(<<"Resource not found">>), Undef))

\* case "NOT_FOUND"
NotFoundCase(path) ==
    Ok(HttpError("NotFound", Str(<<"Resource not found: ">> \o path), Undef))

\* case "PARSE"
ParseCase(error) ==
    IF IsNullish(error) THEN Throw("TypeError")
    ELSE Ok(HttpError("BadRequest",
                      Str(<<"Parse error: ">>
                          \o ToStr(GetProp(error, "message"))),
                      Undef))

\* case "INVALID_COOKIE_SIGNATURE"
CookieCase(error) ==
    IF IsNullish(error) THEN Throw("TypeError")
    ELSE Ok(HttpError("BadRequest", Str(<<"Invalid cookie signature">>),
                      Obj([key |-> GetProp(error, "key")])))

\* switch (code) of Phase 2
SwitchCode(error, code, path) ==
    CASE code = "PROBLEM_ERROR" -> Ok(error)
      [] code = "VALIDATION" -> ValidationCase(error)
      [] code = "NOT_FOUND" -> NotFoundCase(path)
      [] code = "PARSE" -> ParseCase(error)
      [] code = "INVALID_COOKIE_SIGNATURE" -> CookieCase(error)
      [] OTHER -> DefaultCase(error)

\* Phase 2: default handling when the transform hook chose nothing
Phase2(error, code, path) ==
    IF InstanceOfProblemError(error) THEN Ok(error)
    ELSE SwitchCode(error, code, path)

\* the rewrite as it would be if only the httpstatuses.com types were rewritten
RewriteType_NoAboutBlank(json, typeBaseUrl) ==
    IF ~Truthy(typeBaseUrl) THEN Ok(json)
    ELSE IF json["type"].t # "string" THEN Throw("TypeError")
    ELSE IF Includes(json["type"].v, <<"httpstatuses.com">>)
    THEN Ok([json EXCEPT !["type"] =
                Str(typeBaseUrl.v \o <<"/">> \o ToStr(json["status"]))])
    ELSE Ok(json)

\* the typeBaseUrl condition and rewrite of Phase 3
RewriteType(json, typeBaseUrl) ==
    IF ~Truthy(typeBaseUrl) THEN Ok(json)
    ELSE IF json["type"] = Str(AboutBlank)
    THEN Ok([json EXCEPT !["type"] =
                Str(typeBaseUrl.v \o <<"/">> \o ToStr(json["status"]))])
    ELSE IF json["type"].t # "string" THEN Throw("TypeError")
    ELSE IF Includes(json["type"].v, <<"httpstatuses.com">>)
    THEN Ok([json EXCEPT !["type"] =
                Str(typeBaseUrl.v \o <<"/">> \o ToStr(json["status"]))])
    ELSE Ok(json)

\* problem.toJSON is a function
HasToJSON(problem) ==
    problem.t \in {"ProblemError", "StandaloneProblemError"}

\* problem.toJSON()
CallToJSON(problem) ==
    IF problem.t = "StandaloneProblemError" THEN StandaloneToJSON(problem)
    ELSE toJSON(problem)

\* Phase 3 as it would be without the assignment json.instance = path
Phase3_NoInstance(problem, path, options) ==
    IF ~HasToJSON(problem) THEN Throw("TypeError")
    ELSE RewriteType(CallToJSON(problem), options.typeBaseUrl)

\* Phase 3 as it would be if the path only filled in a missing instance
Phase3_KeepsInstance(problem, path, options) ==
    IF ~HasToJSON(problem) THEN Throw("TypeError")
    ELSE RewriteType(Merge([instance |-> Str(path)], CallToJSON(problem)),
                     options.typeBaseUrl)

\* Phase 3: problem.toJSON(); json.instance = path; the typeBaseUrl rewrite
Phase3(problem, path, options) ==
    IF ~HasToJSON(problem) THEN Throw("TypeError")
    ELSE RewriteType(Merge(CallToJSON(problem), [instance |-> Str(path)]),
                     options.typeBaseUrl)

\* what became of the hook in one invocation: whether it was called, whether
\* the call left a pending promise behind, whether a box was printed
\* the problem as it would be left if toJSON() returned the problem itself
\* instead of a new object: the assignments of Phase 3 would land on it
Phase3Problem_SameObject(problem, json) ==
    IF InstanceOfProblemError(problem)
    THEN [problem EXCEPT !.v.instance = json["instance"],
                         !.v.type = json["type"]]
    ELSE problem

\* the chosen problem as Phase 3 leaves it: json.instance = path and
\* json.type = ... assign to the object literal toJSON() returned, which
\* shares no member with the problem, so the problem is what it was
Phase3Problem(problem, json) == problem

NoHook == [called |-> FALSE, started |-> FALSE, logged |-> FALSE]

Production == Str(<<"production">>)

\* logErrorWithConsola(problem, ctx) (src/unnamed/part_004, lines 251-383) with
\* process.env.NODE_ENV = env: TRUE when a box is printed, FALSE when the
\* function returns before printing
logErrorWithConsola(problem, ctx, env) ==
    IF env = Production THEN Ok(FALSE)
    ELSE IF isDatabaseError(ctx.error) THEN Ok(TRUE)
    ELSE IF ~Truthy(GetProp(GetProp(problem, "extensions"), "errors"))
    THEN Ok(TRUE)
    ELSE IF GetProp(GetProp(problem, "extensions"), "errors").t # "array"
    THEN Throw("TypeError")
    ELSE Ok(TRUE)

\* the onBeforeRespond hook of standardErrorSuite (src/unnamed/part_004):
\* if (logging || forceLogging) logErrorWithConsola(problem, ctx)
SuiteHook(closure, problem, ctx) ==
    IF Truthy(closure.logging) \/ Truthy(closure.forceLogging)
    THEN LET printed == logErrorWithConsola(problem, ctx, closure.env)
         IN  IF printed.t = "throw" THEN printed
             ELSE Ok([called |-> TRUE, started |-> FALSE,
                      logged |-> printed.v])
    ELSE Ok([called |-> TRUE, started |-> FALSE, logged |-> FALSE])

\* Phase 4 as it would be with "await" in the place of "void"
Phase4_Awaits(options, problem, ctx) ==
    IF ~Truthy(options.onBeforeRespond) THEN Ok(NoHook)
    ELSE IF options.onBeforeRespond.t = "logger"
    THEN SuiteHook(options.onBeforeRespond.v, problem, ctx)
    ELSE IF options.onBeforeRespond.v \in {"throws", "rejects"}
    THEN Throw("HookError")
    ELSE Ok([called |-> TRUE, started |-> FALSE, logged |-> FALSE])

\* Phase 4: void options.onBeforeRespond(problem, context)
\* "started" is whether the call left a promise behind that is still pending
Phase4(options, problem, ctx) ==
    IF ~Truthy(options.onBeforeRespond) THEN Ok(NoHook)
    ELSE IF options.onBeforeRespond.t = "logger"
    THEN SuiteHook(options.onBeforeRespond.v, problem, ctx)
    ELSE IF options.onBeforeRespond.v = "throws" THEN Throw("HookError")
    ELSE Ok([called |-> TRUE,
             started |-> options.onBeforeRespond.v \in {"async", "rejects"},
             logged |-> FALSE])

\* JSON.stringify followed by the client's JSON.parse: members whose value is
\* undefined are dropped, undefined array elements become null
RECURSIVE Serialize(_)
Serialize(x) ==
    CASE x.t = "object" ->
           Obj([k \in {m \in DOMAIN x.v : x.v[m].t # "undefined"} |->
                    Serialize(x.v[k])])
      [] x.t = "array" ->
           Arr([i \in 1..Len(x.v) |->
                    IF x.v[i].t = "undefined" THEN Null ELSE Serialize(x.v[i])])
      [] OTHER -> x

DigitVal(c) ==
    CASE c = "0" -> 0 [] c = "1" -> 1 [] c = "2" -> 2 [] c = "3" -> 3
      [] c = "4" -> 4 [] c = "5" -> 5 [] c = "6" -> 6 [] c = "7" -> 7
      [] c = "8" -> 8 [] c = "9" -> 9 [] OTHER -> -1

\* ToNumber of a string of decimal digits; -1 stands for NaN
RECURSIVE StrToNum(_)
StrToNum(s) ==
    IF s = <<>> THEN 0
    ELSE LET hi == StrToNum(SubSeq(s, 1, Len(s) - 1))
             lo == DigitVal(s[Len(s)])
         IN  IF hi < 0 \/ lo < 0 THEN -1 ELSE 10 * hi + lo

\* the status member of ResponseInit: absent means 200, anything that does not
\* convert to an integer of 200..599 makes the Response constructor throw
ResponseStatus(x) ==
    LET n == CASE x.t = "undefined" -> 200
               [] x.t = "number" -> x.v
               [] x.t = "string" -> StrToNum(x.v)
               [] OTHER -> -1
    IN  IF n >= 200 /\ n <= 599 THEN Ok(n) ELSE Throw("RangeError")

ContentType == "Content-Type"
ProblemJson == <<"application/problem+json; charset=utf-8">>

\* { ...set.headers, "Content-Type": ... }: an object literal keeps the place
\* of a key it already holds and replaces its value
SpreadHeaders(queued) ==
    IF \E i \in 1..Len(queued) : queued[i][1] = ContentType
    THEN [i \in 1..Len(queued) |->
             IF queued[i][1] = ContentType
             THEN <<ContentType, ProblemJson>> ELSE queued[i]]
    ELSE Append(queued, <<ContentType, ProblemJson>>)

\* header names are case-insensitive: the Headers object keeps them lower-case
Lower(name) ==
    CASE name = "Content-Type" -> "content-type"
      [] name = "CONTENT-TYPE" -> "content-type"
      [] name = "X-Request-Id" -> "x-request-id"
      [] OTHER -> name

\* new Headers(init): append every member in order; a name met again has its
\* values joined by ", "
RECURSIVE HeadersOf(_)
HeadersOf(pairs) ==
    IF pairs = <<>> THEN [k \in {} |-> <<>>]
    ELSE LET rest == HeadersOf(SubSeq(pairs, 1, Len(pairs) - 1))
             name == Lower(pairs[Len(pairs)][1])
             value == pairs[Len(pairs)][2]
         IN  IF name \in DOMAIN rest
             THEN [rest EXCEPT ![name] = rest[name] \o <<", ">> \o value]
             ELSE [k \in (DOMAIN rest) \cup {name} |->
                      IF k = name THEN value ELSE rest[k]]

\* new Response(JSON.stringify(json), { status: json.status, headers })
MakeResponse(json, queued) ==
    LET status == ResponseStatus(json["status"])
    IN  IF status.t = "throw" THEN status
        ELSE Ok([status |-> status.v,
                 headers |-> HeadersOf(SpreadHeaders(queued)),
                 body |-> Serialize(Obj(json)).v])

\* one thing the handler did: a call of a hook with its two arguments, the
\* default classification, the finalisation of the document, the construction
\* of the Response
Step(name, arg, context) == [name |-> name, arg |-> arg, context |-> context]

\* Phase 4 as it would be if the hook were called a second time
HookSteps_Twice(options, problem, ctx) ==
    IF Truthy(options.onBeforeRespond)
    THEN <<Step("onBeforeRespond", problem, ctx),
           Step("onBeforeRespond", problem, ctx)>>
    ELSE <<>>

\* if (options.transform) options.transform(error, context)
TransformSteps(options, ctx) ==
    IF Truthy(options.transform)
    THEN <<Step("transform", ctx.error, ctx)>> ELSE <<>>

\* if (options.onBeforeRespond) void options.onBeforeRespond(problem, context)
HookSteps(options, problem, ctx) ==
    IF Truthy(options.onBeforeRespond)
    THEN <<Step("onBeforeRespond", problem, ctx)>> ELSE <<>>

\* one invocation of the onError handler: the chosen problem, what became of the
\* hook, and how the invocation completed (a Response or a thrown exception)
\* the return statement, reached unless an earlier phase threw; the record
\* holds the chosen problem, what became of the hook, and the completion
Outcome(ctx, chosen, json, called, steps) ==
    [steps |-> IF called.t = "throw" THEN steps
               ELSE Append(steps, Step("respond", Undef, Undef)),
     problem |-> IF chosen.t = "throw" THEN Undef
                 ELSE IF json.t = "throw" THEN chosen.v
                 ELSE Phase3Problem(chosen.v, json.v),
     hook |-> IF json.t = "throw" THEN NoHook
              ELSE IF called.t = "throw"
              THEN [called |-> TRUE, started |-> FALSE, logged |-> FALSE]
              ELSE called.v,
     completion |-> IF called.t = "throw" THEN called
                    ELSE MakeResponse(json.v, ctx.headers)]

\* Phase 4 follows Phase 3
AfterPhase3(options, ctx, chosen, json, steps) ==
    Outcome(ctx, chosen, json,
            IF json.t = "throw" THEN json ELSE Phase4(options, chosen.v, ctx),
            IF json.t = "throw" THEN steps
            ELSE steps \o HookSteps(options, chosen.v, ctx))

\* Phase 3 follows the choice of the problem
AfterPhase2(options, ctx, chosen, steps) ==
    AfterPhase3(options, ctx, chosen,
                IF chosen.t = "throw" THEN chosen
                ELSE Phase3(chosen.v, ctx.path, options),
                IF chosen.t = "throw" THEN steps
                ELSE Append(steps, Step("finalize", Undef, Undef)))

\* if (!problem) { Phase 2 }
AfterPhase1(options, ctx, p1) ==
    AfterPhase2(options, ctx,
                IF p1.t = "throw" THEN p1
                ELSE IF Truthy(p1.v) THEN p1
                ELSE Phase2(ctx.error, ctx.code, ctx.path),
                IF p1.t = "throw" \/ Truthy(p1.v)
                THEN TransformSteps(options, ctx)
                ELSE Append(TransformSteps(options, ctx),
                            Step("classify", Undef, Undef)))

OnErrorHandler(options, ctx) ==
    AfterPhase1(options, ctx, Phase1(options, ctx.error, ctx))

(***************************************************************************)
(* The values the surrounding framework and the application can hand in    *)
(***************************************************************************)
Boom == <<"boom">>
Details == {Undef, Str(<<>>), Str(Boom)}

CustomType == <<"https://", "example.com", "/problems/out-of-stock">>
MirrorType == <<"https://", "example.com", "/docs?ref=", "httpstatuses.com">>
TitleX == Str(<<"Out Of Stock">>)

\* the extensions of src/__tests__/bad-request.spec.ts, lines 12-16
TestExtensions ==
    Obj([field |-> Str(<<"name">>), message |-> Str(<<"Name is required">>),
         instance |-> Str(<<"/foo">>)])

\* errors the application throws on purpose
ThrownProblems ==
    {HttpError(n, d, Undef) : n \in CatalogNames, d \in Details}
    \cup {HttpError("BadRequest", Str(Boom), Obj([field |-> Str(<<"name">>)])),
          HttpError("Forbidden", Str(Boom),
                    Obj([instance |-> Str(<<"/elsewhere">>)])),
          HttpError("Conflict", Str(Boom), Obj([type |-> Str(CustomType)])),
          HttpError("NotFound", Str(Boom), Obj([type |-> Undef])),
          HttpError("BadGateway", Str(Boom), Obj([status |-> Num(200)])),
          HttpError("BadGateway", Str(Boom), Obj([status |-> Undef])),
          HttpError("Unauthorized", Str(Boom),
                    Obj([title |-> Str(<<"Token expired">>),
                         detail |-> Str(<<"sign in again">>)])),
          HttpError("NotFound", Str(Boom),
                    Obj([resource |-> Str(<<"user">>),
                         message |-> Str(<<"Name is required">>)])),
          HttpError("BadRequest", Str(Boom),
                    Obj([errors |-> Str(<<"see the form">>)])),
          HttpError("BadRequest", Str(Boom), TestExtensions),
          NewProblemError(Undef, TitleX, Num(422), Str(Boom),
                          Str(<<"/orders/7">>), Undef),
          NewProblemError(Str(CustomType), TitleX, Num(422), Undef, Undef,
                          Undef),
          NewProblemError(Str(MirrorType), TitleX, Num(422), Str(Boom), Undef,
                          Undef),
          NewProblemError(Str(<<>>), TitleX, Num(422), Str(Boom), Undef,
                          Undef),
          NewProblemError(Undef, TitleX, Num(99), Str(Boom), Undef, Undef)}

\* errors thrown with the standalone classes (src/__tests__/bad-request.spec.ts)
StandaloneProblems ==
    {StandaloneHttpError("BadRequest", Str(Boom), TestExtensions),
     StandaloneHttpError("NotFound", Str(Boom), Undef),
     StandaloneHttpError("Unauthorized", Undef, Undef)}

Failure(path, value) ==
    Obj([path |-> Str(path), message |-> Str(<<"Invalid">>), value |-> value])

\* everything else that can reach the handler as `error`
OtherErrors ==
    {Null, Undef, Str(<<"oops">>), Num(42), Obj(EmptyMap), NoToStringObj,
     ErrorObj([message |-> Str(Boom)]),
     ErrorObj([message |-> Str(<<>>)]),
     ErrorObj([message |-> Str(Boom), all |-> Arr(<<>>)]),
     ErrorObj([message |-> Str(Boom),
               all |-> Arr(<<Failure(<<"/email">>, Str(<<"x">>)),
                             Failure(<<"/age">>, Undef)>>)]),
     ErrorObj([message |-> Str(Boom), all |-> Str(<<"none">>)]),
     ErrorObj([message |-> Str(Boom), all |-> Arr(<<Null>>)]),
     ErrorObj([message |-> Str(Boom), key |-> Str(<<"sid">>)]),
     ErrorObj([message |-> Str(Boom), property |-> Str(<<"photo.jpg">>),
               expected |-> Str(<<"application/json">>)])}

\* A driver error wrapping a PostgreSQL error as its cause
\* (src/__tests__/standard-error-suite.test.ts)
DbError(cause) ==
    ErrorObj([message |-> Str(<<FailedQuery, " ", "insert into users">>),
              cause |-> Obj(cause)])

PgMessage == Str(<<FailedQuery, " ", "select 1", "\n", "params: 1">>)
NotNullMessage ==
    Str(<<NullValueInColumn, "n", "a", "m", "e", Quote,
          " violates not-null constraint">>)

UsersEmailKey == Str(<<"u", "s", "e", "r", "s", "_", "e", "m", "a", "i", "l", "_", "k", "e", "y">>)
PostsUserIdFkey == Str(<<"p", "o", "s", "t", "s", "_", "u", "s", "e", "r", "_", "i", "d", "_", "f", "k", "e", "y">>)
UserKeysOwnerFkey == Str(<<"u", "s", "e", "r", "_", "k", "e", "y", "s", "_", "o", "w", "n", "e", "r", "_", "f", "k", "e", "y">>)
UsersEmailUnique == Str(<<"u", "s", "e", "r", "s", "_", "e", "m", "a", "i", "l", "_", "u", "n", "i", "q", "u", "e">>)
OrdersCheck == Str(<<"o", "r", "d", "e", "r", "s", "_", "c", "h", "e", "c", "k">>)

UsersEmailIdx == Str(<<"u", "s", "e", "r", "s", "_", "e", "m", "a", "i", "l", "_", "i", "d", "x">>)

DatabaseErrors ==
    {DbError([code |-> Code("2", "3", "5", "0", "5"),
              constraint |-> UsersEmailKey, message |-> PgMessage]),
     DbError([code |-> Code("2", "3", "5", "0", "5"),
              constraint |-> UsersEmailIdx, message |-> PgMessage]),
     DbError([code |-> Code("2", "3", "5", "0", "5"),
              constraint |-> UsersEmailUnique, message |-> PgMessage]),
     DbError([code |-> Code("2", "3", "5", "0", "5"), message |-> PgMessage]),
     DbError([code |-> Code("2", "3", "5", "0", "3"),
              constraint |-> PostsUserIdFkey, message |-> PgMessage]),
     DbError([code |-> Code("2", "3", "5", "0", "3"),
              constraint |-> UserKeysOwnerFkey, message |-> PgMessage]),
     DbError([code |-> Code("2", "3", "5", "0", "3"),
              constraint |-> OrdersCheck, message |-> PgMessage]),
     DbError([code |-> Code("2", "3", "5", "0", "3"),
              constraint |-> Num(7), message |-> PgMessage]),
     DbError([code |-> Code("2", "3", "5", "0", "2"),
              column |-> Str(<<"email">>), message |-> NotNullMessage]),
     DbError([code |-> Code("2", "3", "5", "0", "2"),
              message |-> NotNullMessage]),
     DbError([code |-> Code("2", "3", "5", "0", "2"), message |-> PgMessage]),
     DbError([code |-> Code("2", "3", "5", "0", "2")]),
     DbError([code |-> Code("2", "3", "5", "1", "4"),
              detail |-> Str(<<"Failing row contains (-1)">>),
              constraint |-> OrdersCheck, message |-> PgMessage]),
     DbError([code |-> Code("2", "3", "5", "1", "4"), message |-> PgMessage]),
     DbError([code |-> Code("4", "0", "0", "0", "1"), message |-> PgMessage]),
     DbError([code |-> Code("4", "0", "P", "0", "1"), message |-> PgMessage]),
     DbError([code |-> Code("5", "3", "3", "0", "0"), message |-> PgMessage]),
     DbError([code |-> Code("5", "8", "0", "3", "0"), message |-> PgMessage]),
     DbError([code |-> Code("0", "8", "0", "0", "6"), message |-> PgMessage]),
     DbError([code |-> Code("4", "2", "P", "0", "1"), message |-> PgMessage]),
     DbError([code |-> Code("4", "2", "P", "0", "1")]),
     DbError([code |-> Code("4", "2", "P", "0", "1"), message |-> Num(7)]),
     \* not database errors: a lower-case code, a numeric code, no code
     DbError([code |-> Code("e", "c", "o", "n", "n"), message |-> PgMessage]),
     DbError([code |-> Num(23505), message |-> PgMessage]),
     DbError([message |-> PgMessage]),
     ErrorObj([message |-> Str(<<"wrapped">>), cause |-> Str(<<"timeout">>)]),
     \* a code of four characters, one of six, a null cause
     DbError([code |-> Str(<<"2", "3", "5", "0">>), message |-> PgMessage]),
     DbError([code |-> Str(<<"2", "3", "5", "0", "5", "0">>),
              message |-> PgMessage]),
     ErrorObj([message |-> Str(<<"wrapped">>), cause |-> Null]),
     \* a plain object, not an Error, that wraps a PostgreSQL error
     Obj([cause |-> Obj([code |-> Code("2", "3", "5", "0", "5")])])}

Errors ==
    ThrownProblems \cup StandaloneProblems \cup OtherErrors
        \cup DatabaseErrors

Codes ==
    {"PROBLEM_ERROR", "VALIDATION", "NOT_FOUND", "PARSE",
     "INVALID_COOKIE_SIGNATURE", "INVALID_FILE_TYPE", "INTERNAL_SERVER_ERROR",
     "UNKNOWN"}

Paths == {<<"/users/9">>, <<"/foo">>}

QueuedHeaders ==
    {<<>>,
     <<<<"X-Request-Id", <<"r1">>>>, <<"content-type", <<"text/plain">>>>>>,
     <<<<"Content-Type", <<"text/html">>>>, <<"X-Request-Id", <<"r1">>>>>>}

BaseUrl == <<"https://", "api.x.com", "/errors">>

Transforms ==
    {Undef, [t |-> "throws", v |-> 0], [t |-> "suite", v |-> 0]}
    \cup {[t |-> "returns", v |-> r] :
            r \in {Null, Undef, Obj([status |-> Num(404)]),
                   HttpError("Conflict", Str(<<"mapped">>), Undef)}}

Hooks ==
    {Undef}
    \cup {[t |-> "hook", v |-> b] :
            b \in {"returns", "throws", "async", "rejects"}}

OptionsSet ==
    [transform : Transforms,
     typeBaseUrl : {Undef, Str(<<>>), Str(BaseUrl)},
     onBeforeRespond : Hooks]

\* process.env.NODE_ENV, taken not to change while the process runs
NodeEnvs == {Undef, Production, Str(<<"development">>)}

\* the options of standardErrorSuite
SuiteOptionsSet ==
    [typeBaseUrl : {Undef, Str(BaseUrl)},
     logging : {Undef, Bool(TRUE), Bool(FALSE)},
     forceLogging : {Undef, Bool(TRUE), Bool(FALSE)}]

\* standardErrorSuite(suiteOptions) with process.env.NODE_ENV = env: the
\* options it hands to unifiedErrorPlugin
standardErrorSuite(suiteOptions, env) ==
    [transform |-> [t |-> "suite", v |-> 0],
     typeBaseUrl |-> suiteOptions.typeBaseUrl,
     onBeforeRespond |->
         [t |-> "logger",
          v |-> [logging |-> IF suiteOptions.logging.t = "undefined"
                             THEN Bool(env # Production)
                             ELSE suiteOptions.logging,
                 forceLogging |-> IF suiteOptions.forceLogging.t = "undefined"
                                  THEN Bool(FALSE)
                                  ELSE suiteOptions.forceLogging,
                 env |-> env]]]

MaxPending == 2

(***************************************************************************)
(* The state machine                                                       *)
(***************************************************************************)
VARIABLES options, suite, pc, context, problem, hook, response, pending,
          steps

vars ==
    <<options, suite, pc, context, problem, hook, response, pending, steps>>

\* the plugin was made by unifiedErrorPlugin(options) directly
NoSuite == [installed |-> FALSE, options |-> Undef, env |-> Undef]

NoContext == [error |-> Undef, code |-> "", path |-> <<>>, headers |-> <<>>]
NoResponse == [t |-> "none", v |-> 0]

\* unifiedErrorPlugin(options): nothing handled yet
Init ==
    /\ \/ /\ options \in OptionsSet
          /\ suite = NoSuite
       \/ \E suiteOptions \in SuiteOptionsSet, env \in NodeEnvs :
             /\ options = standardErrorSuite(suiteOptions, env)
             /\ suite = [installed |-> TRUE, options |-> suiteOptions,
                         env |-> env]
    /\ pc = "idle"
    /\ context = NoContext
    /\ problem = Undef
    /\ hook = NoHook
    /\ response = NoResponse
    /\ pending = 0
    /\ steps = <<>>

\* one call of the handler: ({ code, error, path, set, request }) => Response
\* the handler ran on ctx and ended as r
Settle(ctx, r) ==
    /\ r.hook.started => pending < MaxPending
    /\ context' = ctx
    /\ problem' = r.problem
    /\ hook' = r.hook
    /\ response' = r.completion
    /\ steps' = r.steps
    /\ pending' = IF r.hook.started THEN pending + 1 ELSE pending

\* the call as it would be if the plugin kept a flag while a hook is pending
\* and an invocation that finds it set skipped the type rewrite
Invoke_WhilePending(ctx) ==
    Settle(ctx, OnErrorHandler(IF pending > 0
                               THEN [options EXCEPT !.typeBaseUrl = Undef]
                               ELSE options, ctx))

\* the handler closes over options only and writes to nothing outside the
\* call: what an invocation does is a function of options and its arguments
Invoke(ctx) == Settle(ctx, OnErrorHandler(options, ctx))

Handle(error, code, path, headers) ==
    /\ pc = "idle"
    /\ Invoke([error |-> error, code |-> code, path |-> path,
               headers |-> headers])
    /\ pc' = "returned"
    /\ UNCHANGED <<options, suite>>

\* the framework caught an error and calls the onError handler with it
OnError ==
    /\ pc = "idle"
    /\ \E error \in Errors, code \in Codes, path \in Paths,
          headers \in QueuedHeaders : Handle(error, code, path, headers)

\* the framework takes what the handler returned; the next error can come
Respond ==
    /\ pc = "returned"
    /\ pc' = "idle"
    /\ context' = NoContext
    /\ problem' = Undef
    /\ hook' = NoHook
    /\ response' = NoResponse
    /\ steps' = <<>>
    /\ UNCHANGED <<options, suite, pending>>

\* a promise a hook left behind settles
HookSettle ==
    /\ pending > 0
    /\ pending' = pending - 1
    /\ UNCHANGED <<options, suite, pc, context, problem, hook, response,
                   steps>>

Next ==
    \/ OnError
    \/ Respond
    \/ HookSettle

Spec == Init /\ [][Next]_vars

(***************************************************************************)
(* Properties                                                              *)
(***************************************************************************)
Returned == pc = "returned"
Responded == pc = "returned" /\ response.t = "ok"
Body == response.v.body
BodyGet(k) == IF k \in DOMAIN Body THEN Body[k] ELSE Undef

NoTransform == options.transform = Undef
NoHookOption == options.onBeforeRespond = Undef
DefaultOptions == NoTransform /\ NoHookOption /\ options.typeBaseUrl = Undef

\* the transform hook did not choose a problem in this invocation
TransformResult == CallTransform(options.transform, context.error, context)

NotClaimed ==
    \/ options.transform = Undef
    \/ /\ TransformResult.t = "ok"
       /\ ~InstanceOfProblemError(TransformResult.v)

\* what the same invocation gives with no transform configured
WithoutTransform ==
    OnErrorHandler([options EXCEPT !.transform = Undef], context)

\* C1: one invocation of the handler always ends by returning a response whose
\* body has type, title and status; no exception leaves the handler.  Stated
\* for the Error instances under every framework code, with no hook configured.
C1_NeverThrows ==
    (Returned /\ DefaultOptions /\ context.error.t = "Error") =>
        /\ response.t = "ok"
        /\ {"type", "title", "status"} \subseteq DOMAIN Body

\* C2: when options.transform throws, the invocation still returns what it
\* returns with no transform configured; the exception is not propagated.
C2_TransformThrowIsNoMatch ==
    (Returned /\ Truthy(options.transform) /\ TransformResult.t = "throw"
     /\ NoHookOption /\ WithoutTransform.completion.t = "ok") =>
        /\ response.t = "ok"
        /\ response = WithoutTransform.completion

\* C3: a ProblemError returned by transform is the chosen problem whatever the
\* error and code are; when transform returns anything else, the chosen problem
\* and the completion are those of the invocation with no transform configured.
C3_TransformFirstChance ==
    (Returned /\ Truthy(options.transform) /\ TransformResult.t = "ok") =>
        IF InstanceOfProblemError(TransformResult.v)
        THEN problem = TransformResult.v
        ELSE /\ problem = WithoutTransform.problem
             /\ response = WithoutTransform.completion

C3_Witness ==
    /\ Responded
    /\ options.transform.t = "returns"
    /\ InstanceOfProblemError(options.transform.v)
    /\ InstanceOfProblemError(context.error)
    /\ context.error # options.transform.v
    /\ context.code = "VALIDATION"
    /\ problem = options.transform.v
    /\ Body["title"] = Str(<<"Conflict">>)

\* C4: a thrown catalog error with detail string D on path P is answered, in the
\* default configuration and whatever the reported code is, with the entry's
\* status and exactly {type, title, status, detail: D, instance: P}.
C4_CatalogErrorBody ==
    \A n \in CatalogNames, d \in Details :
        (Returned /\ DefaultOptions /\ d.t = "string"
         /\ context.error = HttpError(n, d, Undef)) =>
            /\ response.t = "ok"
            /\ response.v.status = Catalog(n).status
            /\ Body = [type |-> Str(Catalog(n).type),
                       title |-> Str(Catalog(n).title),
                       status |-> Num(Catalog(n).status),
                       detail |-> d,
                       instance |-> Str(context.path)]

\* C5: an INVALID_FILE_TYPE error (not a ProblemError, not claimed by transform)
\* is answered 400 Bad Request with detail = the error's message and the
\* extension members property and expected; never as a 500.
C5_InvalidFileType ==
    (Returned /\ NotClaimed /\ NoHookOption
     /\ context.code = "INVALID_FILE_TYPE" /\ context.error.t = "Error"
     /\ "property" \in DOMAIN context.error.v) =>
        /\ response.t = "ok"
        /\ response.v.status = 400
        /\ BodyGet("title") = Str(<<"Bad Request">>)
        /\ BodyGet("detail") = context.error.v["message"]
        /\ BodyGet("property") = context.error.v["property"]
        /\ BodyGet("expected") = context.error.v["expected"]

\* the failure list a VALIDATION error carries: absent, or an array of records
WellFormedAll(error) ==
    /\ error.t = "Error"
    /\ "all" \in DOMAIN error.v =>
          /\ error.v["all"].t = "array"
          /\ \A i \in 1..Len(error.v["all"].v) : error.v["all"].v[i].t = "object"

\* C6: a VALIDATION error is answered 400 with detail "Validation Failed" and a
\* member errors holding one {path, message, value} record per entry of
\* error.all in order; errors is present and empty when error.all is empty or
\* absent.
C6_ValidationErrors ==
    (Returned /\ NotClaimed /\ NoHookOption
     /\ context.code = "VALIDATION" /\ WellFormedAll(context.error)) =>
        /\ response.t = "ok"
        /\ response.v.status = 400
        /\ BodyGet("detail") = Str(<<"Validation Failed">>)
        /\ "errors" \in DOMAIN Body
        /\ LET all == IF "all" \in DOMAIN context.error.v
                      THEN context.error.v["all"].v ELSE <<>>
           IN  Body["errors"] = Serialize(Arr(all))

\* C7: NOT_FOUND gives 404 with a detail containing the request path; PARSE
\* gives 400 with a detail containing the error's message;
\* INVALID_COOKIE_SIGNATURE gives 400 with a fixed detail and the member key
\* equal to the error's key.
C7_FrameworkCodes ==
    (Returned /\ NotClaimed /\ ~InstanceOfProblemError(context.error)
     /\ (options.onBeforeRespond.t = "hook"
            => options.onBeforeRespond.v # "throws")) =>
        /\ context.code = "NOT_FOUND" =>
              /\ response.t = "ok"
              /\ response.v.status = 404
              /\ BodyGet("status") = Num(404)
              /\ BodyGet("detail").t = "string"
              /\ Includes(BodyGet("detail").v, context.path)
        /\ (context.code = "PARSE" /\ context.error.t = "Error") =>
              /\ response.t = "ok"
              /\ response.v.status = 400
              /\ BodyGet("status") = Num(400)
              /\ BodyGet("detail").t = "string"
              /\ Includes(BodyGet("detail").v, context.error.v["message"].v)
        /\ (context.code = "INVALID_COOKIE_SIGNATURE"
            /\ context.error.t = "Error") =>
              /\ response.t = "ok"
              /\ response.v.status = 400
              /\ BodyGet("status") = Num(400)
              /\ BodyGet("detail") = Str(<<"Invalid cookie signature">>)
              /\ BodyGet("key") = GetProp(context.error, "key")

C7_Witness ==
    /\ Responded
    /\ NotClaimed
    /\ context.code = "INVALID_COOKIE_SIGNATURE"
    /\ context.error.t = "Error"
    /\ GetProp(context.error, "key") = Str(<<"sid">>)
    /\ BodyGet("key") = Str(<<"sid">>)

RecognizedCodes ==
    {"PROBLEM_ERROR", "VALIDATION", "NOT_FOUND", "PARSE",
     "INVALID_COOKIE_SIGNATURE", "INVALID_FILE_TYPE"}

\* C8: an error that is no ProblemError, is not claimed by transform and has
\* none of the recognized codes is answered 500 Internal Server Error with
\* detail = error.message for an Error instance and String(error) otherwise.
C8_GenericError ==
    (Returned /\ NotClaimed /\ NoHookOption
     /\ ~InstanceOfProblemError(context.error)
     /\ context.error.t # "bareobject"
     /\ context.code \notin RecognizedCodes) =>
        /\ response.t = "ok"
        /\ response.v.status = 500
        /\ BodyGet("title") = Str(<<"Internal Server Error">>)
        /\ BodyGet("detail") = IF InstanceOfError(context.error)
                               THEN context.error.v["message"]
                               ELSE Str(ToStr(context.error))

\* C9: in every response the body's instance is the request path of the
\* context, whatever instance the chosen problem carried as a field or as an
\* extension member.
C9_InstanceIsPath ==
    Responded => BodyGet("instance") = Str(context.path)

C9_Witness ==
    /\ Responded
    /\ InstanceOfProblemError(problem)
    /\ GetProp(problem.v.extensions, "instance") = Str(<<"/elsewhere">>)
    /\ context.path = <<"/foo">>
    /\ Body["instance"] = Str(<<"/foo">>)

\* the type a rendered problem starts with counts as the default placeholder
IsPlaceholder(type) ==
    \/ type = Str(AboutBlank)
    \/ \E n \in CatalogNames : type = Str(Catalog(n).type)

\* C10: with typeBaseUrl configured and the rendered type of the chosen problem
\* being "about:blank" or a catalog default, the body's type is
\* "{typeBaseUrl}/{status}" with the body's status; with no typeBaseUrl the
\* body's type is the type the problem rendered.
C10_TypeBaseUrl ==
    Responded =>
        LET rendered == CallToJSON(problem)["type"]
        IN  /\ (Truthy(options.typeBaseUrl) /\ IsPlaceholder(rendered)) =>
                  BodyGet("type") =
                      Str(options.typeBaseUrl.v \o <<"/">>
                          \o ToStr(BodyGet("status")))
            /\ ~Truthy(options.typeBaseUrl) => BodyGet("type") = rendered

C10_Witness ==
    /\ Responded
    /\ options.typeBaseUrl = Str(BaseUrl)
    /\ options.transform.t = "suite"
    /\ isDatabaseError(context.error)
    /\ GetProp(getPostgresError(context.error), "constraint") = UsersEmailKey
    /\ problem = TransformResult.v
    /\ Body["status"] = Num(409)
    /\ Body["type"] = Str(<<"https://", "api.x.com", "/errors", "/", "4", "0", "9">>)

\* C11: a type that is neither "about:blank" nor a catalog default is the
\* body's type, with typeBaseUrl configured or not; stated for the problems
\* whose extensions hold no member named type.
C11_CustomTypeKept ==
    (Responded /\ InstanceOfProblemError(problem)
     /\ "type" \notin DOMAIN Spread(problem.v.extensions)
     /\ ~IsPlaceholder(problem.v.type)) =>
        BodyGet("type") = problem.v.type

\* C12: every response carries exactly the content type
\* "application/problem+json; charset=utf-8", whatever headers were queued, a
\* content-type under any letter case included; every other queued header is
\* in the response with its value.
C12_ContentType ==
    Responded =>
        /\ "content-type" \in DOMAIN response.v.headers
        /\ response.v.headers["content-type"] = ProblemJson
        /\ \A i \in 1..Len(context.headers) :
              Lower(context.headers[i][1]) # "content-type" =>
                  /\ Lower(context.headers[i][1]) \in DOMAIN response.v.headers
                  /\ response.v.headers[Lower(context.headers[i][1])]
                        = context.headers[i][2]

\* C13: in every response the body has a status member and the HTTP status of
\* the response equals it, also when the chosen problem's extensions hold a
\* member named status.
C13_StatusMatches ==
    Responded =>
        /\ "status" \in DOMAIN Body
        /\ Body["status"] = Num(response.v.status)

\* what the same invocation gives with no onBeforeRespond configured
WithoutHook ==
    OnErrorHandler([options EXCEPT !.onBeforeRespond = Undef], context)

\* C14: whatever the hook does (returns, throws, returns a promise that is
\* fulfilled or rejected), the invocation returns the body, status and headers
\* it returns with no hook configured.
C14_HookNeverAlters ==
    (Returned /\ Truthy(options.onBeforeRespond)) =>
        response = WithoutHook.completion

\* C15: when the hook returns a promise, the handler returns while that promise
\* is still pending (hook.started) and returns the response of the invocation
\* with no hook; the promises of earlier requests may be pending as well.
C15_FireAndForget ==
    (Returned /\ hook.called
     /\ options.onBeforeRespond.t = "hook"
     /\ options.onBeforeRespond.v \in {"async", "rejects"}) =>
        /\ hook.started
        /\ response = WithoutHook.completion

C15_Witness ==
    /\ Responded
    /\ hook.started
    /\ options.onBeforeRespond.v = "async"
    /\ pending = 2
    /\ response = WithoutHook.completion

Reserved == {"type", "title", "status", "detail", "instance"}

\* the extensions mapping of the chosen problem
Extensions == Spread(problem.v.extensions)

ConstructedWith(type) ==
    \E instance \in {Undef, Str(<<"/orders/7">>)} :
        context.error =
            NewProblemError(type, TitleX, Num(422), Str(Boom), instance, Undef)

\* C18 as claimed: a ProblemError constructed with the type argument omitted or
\* given as the empty string has the type "about:blank".
C18_EmptyTypeDefaults ==
    Returned =>
        \A type \in {Undef, Str(<<>>)} :
            ConstructedWith(type) => context.error.v.type = Str(AboutBlank)

\* C18 amended: with the type argument omitted the type is "about:blank", and
\* so is the type of the response body when no typeBaseUrl is configured; an
\* empty string given as the type is kept.
C18_OmittedTypeDefaults ==
    Returned =>
        /\ ConstructedWith(Undef) =>
              /\ context.error.v.type = Str(AboutBlank)
              /\ (response.t = "ok" /\ NotClaimed
                  /\ ~Truthy(options.typeBaseUrl)) =>
                    BodyGet("type") = Str(AboutBlank)
        /\ ConstructedWith(Str(<<>>)) => context.error.v.type = Str(<<>>)

C18_Witness ==
    /\ Responded
    /\ NotClaimed
    /\ ConstructedWith(Undef)
    /\ options.typeBaseUrl = Undef
    /\ Body["type"] = Str(AboutBlank)

\* C19: toJSON() of a freshly constructed catalog error with no extensions is
\* exactly {type, title, status} with the entry's constants, plus detail if
\* and only if a detail string was given (the empty string included); no two
\* catalog entries share a status.
C19_CatalogRender ==
    /\ \A n, m \in CatalogNames :
          Catalog(n).status = Catalog(m).status => n = m
    /\ \A n \in CatalogNames, d \in Details :
          (Returned /\ context.error = HttpError(n, d, Undef)) =>
              toJSON(context.error) =
                  Merge([type |-> Str(Catalog(n).type),
                         title |-> Str(Catalog(n).title),
                         status |-> Num(Catalog(n).status)],
                        IF d.t = "string" THEN [detail |-> d] ELSE EmptyMap)

\* extension mappings given as the second argument of a catalog constructor
ExtensionArgs ==
    {Obj([field |-> Str(<<"name">>)]),
     Obj([field |-> Str(<<"name">>), message |-> Str(<<"Name is required">>)]),
     Obj([resource |-> Str(<<"user">>),
          message |-> Str(<<"Name is required">>)]),
     Obj([instance |-> Str(<<"/elsewhere">>)]),
     Obj([type |-> Str(CustomType)]),
     Obj([status |-> Num(200)]),
     Obj([title |-> Str(<<"Token expired">>),
          detail |-> Str(<<"sign in again">>)])}

\* the thrown error was made by the catalog constructor `name`, of either
\* errors file, with (detail, extensions), and is the problem that is answered
ThrownCatalogError(name, detail, extensions) ==
    \/ context.error = HttpError(name, detail, extensions)
    \/ /\ context.error = StandaloneHttpError(name, detail, extensions)
       /\ context.code = "PROBLEM_ERROR"

\* C20: every catalog constructor takes an extensions mapping as its second
\* argument, and every member of the mapping appears with its value in the
\* response body, whichever entry it is and whatever the member's name.
C20_ExtensionsAppear ==
    \A n \in CatalogNames, d \in Details, e \in ExtensionArgs :
        (Responded /\ NotClaimed /\ ThrownCatalogError(n, d, e)) =>
            \A k \in DOMAIN e.v : BodyGet(k) = e.v[k]

\* x is an object in the sense of the language: not null, not a primitive
IsObjectValue(x) ==
    x.t \in {"object", "Error", "ProblemError", "StandaloneProblemError",
             "bareobject", "array"}

\* the cause of the handled error
Cause == GetProp(context.error, "cause")

\* C21: isDatabaseError(value) is true exactly when value is an object with a
\* non-null cause that is itself an object carrying a string code of exactly
\* five characters out of 0-9 and A-Z; it is false for null, primitives, a
\* plain Error, a cause with no code and a code of another form.
C21_Classifier ==
    Returned =>
        (isDatabaseError(context.error) <=>
            /\ IsObjectValue(context.error)
            /\ Cause # Null
            /\ IsObjectValue(Cause)
            /\ GetProp(Cause, "code").t = "string"
            /\ Len(GetProp(Cause, "code").v) = 5
            /\ \A i \in 1..5 :
                  GetProp(Cause, "code").v[i] \in DigitChars \cup UpperChars)

C21_Witness ==
    /\ Returned
    /\ context.error.t = "object"
    /\ isDatabaseError(context.error)
    /\ Cause.v.code = Code("2", "3", "5", "0", "5")

\* the status the mapping table gives a code
TableStatus(code) ==
    CASE code \in {Code("2", "3", "5", "0", "2"), Code("2", "3", "5", "0", "3"),
                   Code("2", "3", "5", "1", "4")} -> 400
      [] code = Code("2", "3", "5", "0", "5") -> 409
      [] code \in {Code("4", "0", "0", "0", "1"), Code("4", "0", "P", "0", "1"),
                   Code("5", "3", "0", "0", "0"), Code("5", "3", "1", "0", "0"),
                   Code("5", "3", "2", "0", "0"), Code("5", "3", "3", "0", "0"),
                   Code("5", "3", "4", "0", "0"), Code("5", "8", "0", "0", "0"),
                   Code("5", "8", "0", "3", "0"), Code("0", "8", "0", "0", "0"),
                   Code("0", "8", "0", "0", "1"), Code("0", "8", "0", "0", "3"),
                   Code("0", "8", "0", "0", "4"), Code("0", "8", "0", "0", "6"),
                   Code("0", "8", "0", "0", "7")} -> 503
      [] OTHER -> 500

\* mapDatabaseError applied to the handled error
Mapped == mapDatabaseError(context.error)

\* C22: for every error the classifier accepts, mapDatabaseError returns a
\* problem with the status of the mapping table for its code (500 for a code
\* outside the table), whose rendered document has x-pg-code equal to the code
\* and x-constraint equal to the cause's constraint.
C22_MappingTable ==
    (Returned /\ isDatabaseError(context.error)) =>
        /\ Mapped.t = "ok"
        /\ Mapped.v.v.status = Num(TableStatus(Cause.v.code))
        /\ toJSON(Mapped.v)["x-pg-code"] = Cause.v.code
        /\ toJSON(Mapped.v)["x-constraint"] = GetProp(Cause, "constraint")

\* C23: for every value the classifier accepts, whatever its code and
\* whichever of message, detail, constraint and column its cause has,
\* mapDatabaseError returns a ProblemError and does not throw.
C23_MapperIsTotal ==
    (Returned /\ isDatabaseError(context.error)) =>
        /\ Mapped.t = "ok"
        /\ InstanceOfProblemError(Mapped.v)

\* the suite's logging switch as configured: the option, or by default whether
\* NODE_ENV is not production
LoggingEnabled ==
    IF suite.options.logging.t = "undefined" THEN suite.env # Production
    ELSE Truthy(suite.options.logging)

ForceLoggingEnabled == Truthy(suite.options.forceLogging)

\* C29: with standardErrorSuite installed, an answered error is logged exactly
\* when logging or forceLogging is enabled; logging is enabled by default
\* outside production, and forceLogging = true has the error logged even when
\* NODE_ENV is production.
C29_Logging ==
    (Responded /\ suite.installed) =>
        (hook.logged <=> (LoggingEnabled \/ ForceLoggingEnabled))

\* what the core plugin gives for the same invocation with the same
\* typeBaseUrl, no transform and no hook
CorePluginAlone ==
    OnErrorHandler([transform |-> Undef, typeBaseUrl |-> options.typeBaseUrl,
                    onBeforeRespond |-> Undef], context)

\* C24: with standardErrorSuite installed, an error isDatabaseError accepts is
\* answered, whatever the framework code, with the status, title, detail,
\* x-pg-code and x-constraint of the problem mapDatabaseError builds for it;
\* every other error is answered as the core plugin alone answers it.
C24_SuiteRefinesCore ==
    (Returned /\ suite.installed) =>
        IF isDatabaseError(context.error)
        THEN /\ Mapped.t = "ok"
             /\ response.t = "ok"
             /\ response.v.status = Mapped.v.v.status.v
             /\ \A k \in {"status", "title", "detail", "x-pg-code",
                           "x-constraint"} :
                   BodyGet(k) = toJSON(Mapped.v)[k]
        ELSE response = CorePluginAlone.completion

EndsWith(s, suffix) ==
    /\ Len(s) >= Len(suffix)
    /\ SubSeq(s, Len(s) - Len(suffix) + 1, Len(s)) = suffix

\* the constraint name of the handled database error
Constraint == GetProp(Cause, "constraint")

\* the phrase parseConstraint makes of it
Phrase == parseConstraint(Constraint)

\* C26: the phrase follows the suffix of the constraint name: ..._key gives
\* "{field} must be unique", ..._fkey gives "{field} must reference a valid
\* record", every other non-empty name gives "constraint violated on {field}",
\* an empty or absent name gives the generic phrase; the field is the segment
\* before the suffix with underscores as spaces and each word capitalised.
C26_ConstraintPhrase ==
    (Returned /\ isDatabaseError(context.error)
     /\ Constraint.t \in {"string", "undefined"}) =>
        /\ Phrase.t = "ok"
        /\ ~Truthy(Constraint) => Phrase.v = <<ConstraintViolated>>
        /\ Truthy(Constraint) =>
              /\ EndsWith(Constraint.v, KeyNeedle) =>
                    Phrase.v[Len(Phrase.v)] = MustBeUnique
              /\ EndsWith(Constraint.v, FkeyNeedle) =>
                    Phrase.v[Len(Phrase.v)] = MustReference
              /\ (~EndsWith(Constraint.v, KeyNeedle)
                  /\ ~EndsWith(Constraint.v, FkeyNeedle)) =>
                    /\ Phrase.v[1] = On
                    /\ Phrase.v[Len(Phrase.v)] = ViolatesConstraint
        /\ Constraint = UsersEmailKey =>
              Phrase.v = <<"E", "m", "a", "i", "l", " ", MustBeUnique>>
        /\ Constraint = PostsUserIdFkey =>
              Phrase.v = <<"U", "s", "e", "r", " ", "I", "d", " ",
                          MustReference>>
        /\ Constraint = UsersEmailIdx =>
              Phrase.v = <<On, " ", "E", "m", "a", "i", "l", " ",
                          ViolatesConstraint>>

\* the place of a step in the order of the handler's text
Rank(name) ==
    CASE name = "transform" -> 1
      [] name = "classify" -> 2
      [] name = "finalize" -> 3
      [] name = "onBeforeRespond" -> 4
      [] name = "respond" -> 5

\* the positions of the steps of that name in this invocation
StepsNamed(name) == {i \in 1..Len(steps) : steps[i].name = name}

\* C27: one invocation is a single pass in the order transform, default
\* classification, finalisation, onBeforeRespond, response, with no step taken
\* twice: transform, if configured, is called once and first, with the error
\* and the context; the default classification runs only when transform chose
\* nothing; an invocation that returns a response has chosen one problem;
\* onBeforeRespond, if configured, is called once in such an invocation, after
\* the finalisation and before the response is made, with the chosen problem
\* itself and the context transform received.
C27_LinearPass ==
    Returned =>
        /\ \A i, j \in 1..Len(steps) :
              i < j => Rank(steps[i].name) < Rank(steps[j].name)
        /\ IF Truthy(options.transform)
           THEN /\ steps # <<>>
                /\ steps[1] = Step("transform", context.error, context)
           ELSE StepsNamed("transform") = {}
        /\ StepsNamed("classify") # {} => NotClaimed
        /\ \A i \in StepsNamed("onBeforeRespond") :
              /\ Truthy(options.onBeforeRespond)
              /\ steps[i] = Step("onBeforeRespond", problem, context)
              /\ StepsNamed("finalize") # {}
        /\ Responded =>
              /\ HasToJSON(problem)
              /\ StepsNamed("finalize") # {}
              /\ steps[Len(steps)].name = "respond"
              /\ Truthy(options.onBeforeRespond) =>
                    Cardinality(StepsNamed("onBeforeRespond")) = 1

C27_Witness ==
    /\ Responded
    /\ options.transform = [t |-> "returns", v |-> Null]
    /\ options.onBeforeRespond = [t |-> "hook", v |-> "returns"]
    /\ Len(steps) = 5
    /\ steps[1] = Step("transform", context.error, context)
    /\ steps[2].name = "classify"
    /\ steps[3].name = "finalize"
    /\ steps[4] = Step("onBeforeRespond", problem, context)
    /\ steps[5].name = "respond"
    /\ InstanceOfProblemError(problem)

\* the invocation run alone: the handler applied to the options and to this
\* invocation's error, code, path and headers
Alone == OnErrorHandler(options, context)

C30_BadRequestBody ==
    (Responded /\ NotClaimed /\ ~Truthy(options.typeBaseUrl)
     /\ ThrownCatalogError("BadRequest", Str(Boom), TestExtensions)) =>
        Body = [type |-> Str(Catalog("BadRequest").type),
                title |-> Str(<<"Bad Request">>),
                status |-> Num(400),
                detail |-> Str(Boom),
                field |-> Str(<<"name">>),
                instance |-> Str(context.path)]

====
